---------------------------- MODULE Spec2Model ----------------------------
(***************************************************************************)
(* Model of the client code of the Goto discovery integration guide        *)
(* (src/goto_discovery_integration_guide.md): the retrying request helper  *)
(* makeRequest, the streaming reader streamChat and the catalog helpers    *)
(* getProducts / getProductById.                                           *)
(*                                                                         *)
(* Each helper is an async function; it is modelled as a small process     *)
(* whose steps are the stretches of code between two awaits.  Strings of   *)
(* the byte stream are sequences of one-character strings, except that a   *)
(* JSON payload between its braces is one token.                           *)
(***************************************************************************)
EXTENDS Integers, Sequences, FiniteSets, TLC

VARIABLES
    \* ---- makeRequest (guide, "Error Handling Template") ----
    rq_pc,      \* "fetch" | "sleep" | "done": where the async function stands
    attempt,    \* the local variable `attempt`
    fetches,    \* number of fetch() calls issued so far
    outcomes,   \* the transport outcome of each fetch, in order
    classes,    \* the branch of the status test each outcome took
    delays,     \* the argument of each sleep() call, in order
    slept,      \* number of sleep() calls that have elapsed
    ret,        \* "pending" | "value" | "undefined" | "throw"
    thrown,     \* the error the caller receives when ret = "throw"
    aborted     \* the caller's AbortController has been aborted

rqVars == <<rq_pc, attempt, fetches, outcomes, classes, delays, slept, ret, thrown, aborted>>

VARIABLES
    \* ---- getProducts / getProductById (guide, "JavaScript (Node.js / Fetch API)") ----
    cat_pc,       \* "idle" | "fetching" | "done"
    cat_fn,       \* "none" | "getProducts" | "getProductById"
    cat_params,   \* the argument of the call
    cat_query,    \* the URLSearchParams sent (getProducts)
    cat_requests, \* number of fetch() calls issued
    cat_outcome,  \* how the fetch settled
    cat_ret,      \* "pending" | "value" | "throw"
    cat_thrown,   \* the error the caller receives when cat_ret = "throw"
    cat_status    \* the status named in the thrown "HTTP error! status: N" (0: none)

catVars ==
    <<cat_pc, cat_fn, cat_params, cat_query, cat_requests, cat_outcome, cat_ret, cat_thrown, cat_status>>

VARIABLES
    \* ---- streamChat (guide, "JavaScript (Streaming Chat)") ----
    st_pc,       \* "idle" | "connecting" | "reading" | "done" | "thrown"
    st_requests, \* number of fetch() calls issued
    st_calls,    \* number of invocations of streamChat
    sent,        \* the payloads of the frames the server streams, in order
    wire,        \* the bytes of the response body not yet read
    out,         \* the events handed to the caller (stdout / console), in order
    st_thrown    \* the exception streamChat rejects with when st_pc = "thrown"

stVars == <<st_pc, st_requests, st_calls, sent, wire, out, st_thrown>>

VARIABLES
    \* ---- searchProducts / searchWithImage / chatWithAssistant / streamChat: dispatch ----
    API_KEY,     \* const API_KEY = process.env.API_KEY
    TENANT_ID,   \* const TENANT_ID = process.env.TENANT_ID
    dp_pc,       \* "unloaded" | "idle" | "fetching" | "streaming" | "done"
    dp_fn,       \* the helper called
    dp_args,     \* its arguments
    dp_request,  \* the request handed to fetch()
    dp_requests, \* number of fetch() calls issued
    dp_ret,      \* "pending" | "value" | "throw"
    dp_thrown    \* the error the caller receives when dp_ret = "throw"

dpVars == <<API_KEY, TENANT_ID, dp_pc, dp_fn, dp_args, dp_request, dp_requests, dp_ret, dp_thrown>>

VARIABLES
    \* ---- request() of the frontend api client, as called by App's effect ----
    ap_pc,       \* per call: "idle" | "fetching" | "text" | "json" | "resolved" | "shown" | "rejected"
    ap_request,  \* per call: what was handed to fetch()
    ap_response, \* per call: what fetch() settled with
    ap_result,   \* per call: what the promise returned by request() settled with
    ap_view      \* per call: the React state set from it (main, products, discovery, chat)

apVars == <<ap_pc, ap_request, ap_response, ap_result, ap_view>>

VARIABLES
    \* ---- one call of the frontend api client: request, analyzeImage, generateImage ----
    fc_pc,       \* "idle" | "fetching" | "text" | "json" | "resolved" | "rejected"
    fc_fn,       \* "request" | "analyzeImage" | "generateImage"
    fc_options,  \* the options argument of request()
    fc_sent,     \* what was handed to fetch()
    fc_response, \* what fetch() settled with
    fc_result    \* what the returned promise settled with

fcVars == <<fc_pc, fc_fn, fc_options, fc_sent, fc_response, fc_result>>

VARIABLES
    \* ---- the worker: its router and the handler of POST /generate ----
    wk_pc,        \* "down" | "idle" | "form" | "encode" | "gemini" | "done"
    wk_router,    \* which router file is deployed
    wk_key,       \* c.env.GEMINI_API_KEY
    wk_req,       \* the request received
    wk_handler,   \* the handler the router picked, "notFound" when none matched
    wk_form,      \* the form fields read by the handler
    wk_thrown,    \* the await of the handler that threw, "none" when none did
    wk_gemini,    \* what ai.models.generateContent settled with
    wk_upstream,  \* number of calls of ai.models.generateContent
    wk_responses  \* the responses sent for the request

wkVars == <<wk_pc, wk_router, wk_key, wk_req, wk_handler, wk_form, wk_thrown, wk_gemini,
            wk_upstream, wk_responses>>

VARIABLES
    \* ---- the Visualizer component (App of part_004) ----
    selectedFile,       \* useState<File | null>(null)
    imageUrl,           \* useState<string>("")
    generatedImageUrl,  \* useState<string>("")
    loading,            \* useState(false)
    error,              \* useState<string>("")
    showOriginal,       \* useState<boolean>(true)
    productType,        \* useState<string>("blinds")
    color,              \* useState<string>("white")
    vz_call,            \* the api.generateImage call awaited by handleVisualize
    vz_response,        \* what the fetch of the last call settled with
    vz_last             \* the handler that ran last

vzVars == <<selectedFile, imageUrl, generatedImageUrl, loading, error, showOriginal,
            productType, color, vz_call, vz_response, vz_last>>

vars == <<rqVars, catVars, stVars, dpVars, apVars, fcVars, wkVars, vzVars>>

(* What each component leaves alone. *)
exceptRq == <<catVars, stVars, dpVars, apVars, fcVars, wkVars, vzVars>>

exceptCat == <<rqVars, stVars, dpVars, apVars, fcVars, wkVars, vzVars>>

exceptSt == <<rqVars, catVars, dpVars, apVars, fcVars, wkVars, vzVars>>

exceptDp == <<rqVars, catVars, stVars, apVars, fcVars, wkVars, vzVars>>

exceptAp == <<rqVars, catVars, stVars, dpVars, fcVars, wkVars, vzVars>>

exceptApDp == <<rqVars, catVars, stVars, fcVars, wkVars, vzVars>>

exceptFc == <<rqVars, catVars, stVars, dpVars, apVars, wkVars, vzVars>>

exceptWk == <<rqVars, catVars, stVars, dpVars, apVars, fcVars, vzVars>>

exceptVz == <<rqVars, catVars, stVars, dpVars, apVars, fcVars, wkVars>>

-----------------------------------------------------------------------------
(* Program constants of makeRequest *)

maxRetries == 3

SleepUnitMs == 1000

(* Statuses the fake transport may answer with. *)
Statuses == {200, 400, 401, 403, 404, 429, 500, 503}

(* A transport outcome: fetch() rejects, or resolves with a status and a    *)
(* body that response.json() can or cannot parse.                          *)
NoOutcome == [kind |-> "none", status |-> 0, json |-> FALSE]

Outcomes ==
    {[kind |-> "reject", status |-> 0, json |-> FALSE]}
    \cup {[kind |-> "response", status |-> s, json |-> j] : s \in Statuses, j \in BOOLEAN}

(* Response.ok *)
ResponseOk(status) == status >= 200 /\ status <= 299

(* Math.pow(2, n) *)
RECURSIVE Pow2(_)
Pow2(n) == IF n = 0 THEN 1 ELSE 2 * Pow2(n - 1)

(* The argument of sleep() after `attempt` has been incremented to a. *)
BackoffMs(a) == Pow2(a) * SleepUnitMs

(* Mutant of Classify: the auth branch tests 401 only. *)
Classify_Only401(status) ==
    IF ResponseOk(status) THEN "ok"
    ELSE IF status >= 500 THEN "server"
    ELSE IF status = 401 THEN "auth"
    ELSE "client"

(* The branch of `if (!response.ok) {...}` a status takes. *)
Classify(status) ==
    IF ResponseOk(status) THEN "ok"
    ELSE IF status >= 500 THEN "server"
    ELSE IF status = 401 \/ status = 403 THEN "auth"
    ELSE "client"

(* What the try block does with an outcome, before any catch:               *)
(*   "return"  return await response.json()                                *)
(*   "backoff" the 5xx branch: attempt++, sleep, continue                  *)
(*   otherwise the error thrown inside the try block.                      *)
TryBlock(o) ==
    IF o.kind = "reject" THEN "TypeError"
    ELSE CASE Classify(o.status) = "ok"     -> IF o.json THEN "return" ELSE "SyntaxError"
           [] Classify(o.status) = "server" -> "backoff"
           [] Classify(o.status) = "auth"   -> "Authentication failed"
           [] OTHER                         -> IF o.json THEN "Request failed" ELSE "SyntaxError"

(* `if (attempt >= maxRetries - 1) throw error;` of the catch block. *)
CatchRethrows(a) == a >= maxRetries - 1

(* Mutant of LoopContinues: `while (true)`. *)
LoopContinues_Forever(a) == a >= 0

(* `while (attempt < maxRetries)` *)
LoopContinues(a) == a < maxRetries

-----------------------------------------------------------------------------
(* makeRequest *)

RqInit ==
    /\ rq_pc = "fetch"
    /\ attempt = 0
    /\ fetches = 0
    /\ outcomes = <<>>
    /\ classes = <<>>
    /\ delays = <<>>
    /\ slept = 0
    /\ ret = "pending"
    /\ thrown = "none"
    /\ aborted = FALSE

(* One pass of the loop body up to its next await sleep() or to the end of  *)
(* the call: fetch, the status test, response.json(), the catch block.     *)
Attempt(o) ==
    /\ rq_pc = "fetch"
    /\ fetches' = fetches + 1
    /\ outcomes' = Append(outcomes, o)
    /\ classes' = Append(classes, IF o.kind = "reject" THEN "reject" ELSE Classify(o.status))
    /\ LET t == TryBlock(o) IN
        CASE t = "return" ->
                /\ rq_pc' = "done"
                /\ ret' = "value"
                /\ UNCHANGED <<attempt, delays, thrown>>
          [] t = "backoff" ->
                /\ attempt' = attempt + 1
                /\ delays' = Append(delays, BackoffMs(attempt + 1))
                /\ rq_pc' = "sleep"
                /\ UNCHANGED <<ret, thrown>>
          [] OTHER ->
                IF CatchRethrows(attempt)
                THEN /\ rq_pc' = "done"
                     /\ ret' = "throw"
                     /\ thrown' = t
                     /\ UNCHANGED <<attempt, delays>>
                ELSE /\ attempt' = attempt + 1
                     /\ delays' = Append(delays, BackoffMs(attempt + 1))
                     /\ rq_pc' = "sleep"
                     /\ UNCHANGED <<ret, thrown>>
    /\ UNCHANGED <<slept, aborted>>

(* The timer of sleep() fires; control returns to the loop test.  When the  *)
(* test fails the function falls off its end and resolves with undefined.  *)
Wake ==
    /\ rq_pc = "sleep"
    /\ slept' = slept + 1
    /\ IF LoopContinues(attempt)
       THEN /\ rq_pc' = "fetch"
            /\ UNCHANGED <<ret>>
       ELSE /\ rq_pc' = "done"
            /\ ret' = "undefined"
    /\ UNCHANGED <<attempt, fetches, outcomes, classes, delays, thrown, aborted>>

(* The caller aborts its AbortController while the call is pending.  Neither *)
(* fetch() nor sleep() of makeRequest is given the signal.                  *)
Cancel ==
    /\ rq_pc # "done"
    /\ ~aborted
    /\ aborted' = TRUE
    /\ UNCHANGED <<rq_pc, attempt, fetches, outcomes, classes, delays, slept, ret, thrown>>

-----------------------------------------------------------------------------
(* JavaScript values of the call arguments *)

Undefined == [t |-> "undefined", n |-> 0, s |-> ""]

Num(n) == [t |-> "number", n |-> n, s |-> ""]

Str(s) == [t |-> "string", n |-> 0, s |-> s]

(* ToBoolean: undefined, 0 and "" are falsy. *)
Truthy(v) ==
    CASE v.t = "undefined" -> FALSE
      [] v.t = "number"    -> v.n # 0
      [] OTHER             -> v.s # ""

(* a || b *)
OrElse(a, b) == IF Truthy(a) THEN a ELSE b

(* ...(v && { key: v }): the key is sent only for a truthy value. *)
SpreadIf(v) == IF Truthy(v) THEN v ELSE Undefined

(* Arguments a caller may pass to getProducts. *)
PageArgs == {Undefined} \cup {Num(n) : n \in {-1, 0, 1, 2}}

LimitArgs == {Undefined} \cup {Num(n) : n \in {0, 1, 20, 100, 101}}

SortOrderArgs == {Undefined} \cup {Str(x) : x \in {"", "asc", "desc", "up"}}

ProductIds == {"known-uuid", "unknown-uuid"}

NoParams == [page |-> Undefined, limit |-> Undefined, sort_order |-> Undefined, id |-> ""]

(* new URLSearchParams({...}) of getProducts *)
QueryParams(params) ==
    [page       |-> OrElse(params.page, Num(1)),
     limit      |-> OrElse(params.limit, Num(20)),
     sort_order |-> SpreadIf(params.sort_order),
     id         |-> ""]

(* What getProducts / getProductById do with the settled fetch:            *)
(* "value", or the error thrown to the caller.                             *)
CatSettle(o) ==
    IF o.kind = "reject" THEN "TypeError"
    ELSE IF ~ResponseOk(o.status) THEN "HTTP error"
    ELSE IF o.json THEN "value" ELSE "SyntaxError"

CatInit ==
    /\ cat_pc = "idle"
    /\ cat_fn = "none"
    /\ cat_params = NoParams
    /\ cat_query = NoParams
    /\ cat_requests = 0
    /\ cat_outcome = NoOutcome
    /\ cat_ret = "pending"
    /\ cat_thrown = "none"
    /\ cat_status = 0

(* getProducts(params) up to its await fetch(): builds the query string     *)
(* and issues the request.                                                 *)
getProducts(params) ==
    /\ cat_pc = "idle"
    /\ cat_fn' = "getProducts"
    /\ cat_params' = params
    /\ cat_query' = QueryParams(params)
    /\ cat_requests' = cat_requests + 1
    /\ cat_pc' = "fetching"
    /\ UNCHANGED <<cat_outcome, cat_ret, cat_thrown, cat_status>>

(* getProductById(productId) up to its await fetch(). *)
getProductById(productId) ==
    /\ cat_pc = "idle"
    /\ cat_fn' = "getProductById"
    /\ cat_params' = [NoParams EXCEPT !.id = productId]
    /\ cat_query' = NoParams
    /\ cat_requests' = cat_requests + 1
    /\ cat_pc' = "fetching"
    /\ UNCHANGED <<cat_outcome, cat_ret, cat_thrown, cat_status>>

(* The fetch settles: `if (!response.ok) throw ...; return await response.json()`. *)
CatRespond(o) ==
    /\ cat_pc = "fetching"
    /\ cat_pc' = "done"
    /\ cat_outcome' = o
    /\ LET r == CatSettle(o) IN
        IF r = "value"
        THEN /\ cat_ret' = "value"
             /\ UNCHANGED <<cat_thrown, cat_status>>
        ELSE /\ cat_ret' = "throw"
             /\ cat_thrown' = r
             /\ cat_status' = IF r = "HTTP error" THEN o.status ELSE 0
    /\ UNCHANGED <<cat_fn, cat_params, cat_query, cat_requests>>

-----------------------------------------------------------------------------
(* streamChat *)

(* Frames the server streams after its opening `connected` frame. *)
MaxFrames == 2

(* Invocations of streamChat, one after the other. *)
MaxCalls == 2

(* The JSON payloads a frame may carry; each is one token of the byte      *)
(* stream, standing for the text between the braces.                       *)
Payloads == {"connected", "chunk:a", "chunk:b", "end", "error", "ping"}

(* data.type and data.data of a parsed payload *)
TypeOf(p) ==
    CASE p = "connected" -> "connected"
      [] p = "chunk:a"   -> "response-chunk"
      [] p = "chunk:b"   -> "response-chunk"
      [] p = "end"       -> "end"
      [] p = "error"     -> "error"
      [] OTHER           -> "ping"

DataOf(p) ==
    CASE p = "chunk:a" -> "a"
      [] p = "chunk:b" -> "b"
      [] OTHER         -> ""

DataPrefix == <<"d", "a", "t", "a", ":", " ">>

(* One frame on the wire: `data: {...}` and a blank line. *)
Frame(p) == DataPrefix \o <<"{", p, "}", "\n", "\n">>

RECURSIVE Wire(_)
Wire(ps) == IF ps = <<>> THEN <<>> ELSE Frame(Head(ps)) \o Wire(Tail(ps))

(* The streams of the server: the `connected` frame, then any frames. *)
FrameSeqs ==
    {<<"connected">> \o t : t \in UNION {[1..n -> Payloads \ {"connected"}] : n \in 0..MaxFrames}}

(* chunk.split('\n') *)
RECURSIVE SplitLines(_)
SplitLines(s) ==
    IF \A i \in 1..Len(s) : s[i] # "\n" THEN <<s>>
    ELSE LET i == CHOOSE k \in 1..Len(s) : s[k] = "\n" /\ \A j \in 1..(k - 1) : s[j] # "\n"
         IN <<SubSeq(s, 1, i - 1)>> \o SplitLines(SubSeq(s, i + 1, Len(s)))

(* line.startsWith('data: ') *)
StartsWithData(line) ==
    Len(line) >= Len(DataPrefix) /\ SubSeq(line, 1, Len(DataPrefix)) = DataPrefix

(* JSON.parse(text): the payload, or "SyntaxError" for anything that is not *)
(* one complete object.                                                    *)
JSONParse(text) ==
    IF Len(text) = 3 /\ text[1] = "{" /\ text[2] \in Payloads /\ text[3] = "}"
    THEN text[2]
    ELSE "SyntaxError"

(* The if / else if chain on data.type: the event handed to the caller, if any. *)
Dispatch(p) ==
    CASE TypeOf(p) = "response-chunk" -> <<[type |-> "response-chunk", data |-> DataOf(p)]>>
      [] TypeOf(p) = "end"            -> <<[type |-> "end", data |-> ""]>>
      [] TypeOf(p) = "error"          -> <<[type |-> "error", data |-> ""]>>
      [] OTHER                        -> <<>>

(* `for (const line of lines)`: the events delivered, and the exception that *)
(* ended the loop ("none" when it ran to its end).                          *)
RECURSIVE ProcessLines(_, _)
ProcessLines(lines, acc) ==
    IF lines = <<>> THEN [events |-> acc, err |-> "none"]
    ELSE IF ~StartsWithData(Head(lines)) THEN ProcessLines(Tail(lines), acc)
    ELSE LET p == JSONParse(SubSeq(Head(lines), Len(DataPrefix) + 1, Len(Head(lines))))
         IN IF p = "SyntaxError" THEN [events |-> acc, err |-> "SyntaxError"]
            ELSE ProcessLines(Tail(lines), acc \o Dispatch(p))

(* The body of the while loop for one chunk. *)
ProcessChunk(chunk) == ProcessLines(SplitLines(chunk), <<>>)

StInit ==
    /\ st_pc = "idle"
    /\ st_requests = 0
    /\ st_calls = 0
    /\ sent = <<>>
    /\ wire = <<>>
    /\ out = <<>>
    /\ st_thrown = "none"

(* streamChat may be called when no earlier call is still in progress. *)
CanCall == st_pc \in {"idle", "done", "thrown"} /\ st_calls < MaxCalls

(* Mutant of StreamCall: a later call reads the response of the call before *)
(* it again instead of fetching.                                           *)
StreamCall_Replay ==
    /\ CanCall
    /\ st_calls' = st_calls + 1
    /\ IF st_calls = 0
       THEN /\ st_requests' = st_requests + 1
            /\ st_pc' = "connecting"
            /\ UNCHANGED <<sent, wire>>
       ELSE /\ st_pc' = "reading"
            /\ wire' = Wire(sent)
            /\ UNCHANGED <<st_requests, sent>>
    /\ st_thrown' = "none"
    /\ UNCHANGED out

(* streamChat is called and runs to `await fetch(...)`: the request is      *)
(* issued.  `sent`, `wire`, `out` and `st_thrown` are those of the call in  *)
(* progress.                                                               *)
StreamCall ==
    /\ CanCall
    /\ st_calls' = st_calls + 1
    /\ st_requests' = st_requests + 1
    /\ st_pc' = "connecting"
    /\ sent' = <<>>
    /\ wire' = <<>>
    /\ out' = <<>>
    /\ st_thrown' = "none"

(* fetch resolves with a response whose body will carry the frames ps. *)
Connect(ps) ==
    /\ st_pc = "connecting"
    /\ sent' = ps
    /\ wire' = Wire(ps)
    /\ st_pc' = "reading"
    /\ UNCHANGED <<st_requests, st_calls, out, st_thrown>>

(* fetch rejects: streamChat rejects with the network exception. *)
ConnectFail ==
    /\ st_pc = "connecting"
    /\ st_pc' = "thrown"
    /\ st_thrown' = "TypeError"
    /\ UNCHANGED <<st_requests, st_calls, sent, wire, out>>

(* reader.read() returns the next n bytes; the chunk is decoded, split and  *)
(* dispatched.                                                             *)
Read(n) ==
    /\ st_pc = "reading"
    /\ n \in 1..Len(wire)
    /\ LET r == ProcessChunk(SubSeq(wire, 1, n)) IN
        /\ out' = out \o r.events
        /\ IF r.err = "none"
           THEN /\ st_pc' = "reading"
                /\ UNCHANGED st_thrown
           ELSE /\ st_pc' = "thrown"
                /\ st_thrown' = r.err
    /\ wire' = SubSeq(wire, n + 1, Len(wire))
    /\ UNCHANGED <<st_requests, st_calls, sent>>

(* reader.read() returns done: the loop breaks and streamChat resolves. *)
ReadDone ==
    /\ st_pc = "reading"
    /\ wire = <<>>
    /\ st_pc' = "done"
    /\ UNCHANGED <<st_requests, st_calls, sent, wire, out, st_thrown>>

(* The connection drops mid-stream: reader.read() rejects. *)
ReadFail ==
    /\ st_pc = "reading"
    /\ st_pc' = "thrown"
    /\ st_thrown' = "TypeError"
    /\ UNCHANGED <<st_requests, st_calls, sent, wire, out>>

-----------------------------------------------------------------------------
(* searchProducts, searchWithImage, chatWithAssistant and the request of    *)
(* streamChat: what each hands to fetch()                                  *)

(* process.env.API_KEY / process.env.TENANT_ID: unset, empty or set. *)
EnvValues == {Undefined, Str(""), Str("secret")}

(* A header value as fetch sends it: undefined is sent as the text "undefined". *)
HeaderValue(v) == IF v.t = "undefined" THEN "undefined" ELSE v.s

(* The x-api-key / x-tenant-id pair every helper puts in its headers. *)
AuthHeaders(key, tenant) ==
    {<<"x-api-key", HeaderValue(key)>>, <<"x-tenant-id", HeaderValue(tenant)>>}

JsonContentType == {<<"Content-Type", "application/json">>}

(* Query strings, as sequences of characters. *)
Queries == {<<>>, <<" ">>, <<"d">>, <<" ", "d">>}

(* The filter argument: omitted, the simple object form, the array form. *)
FilterArgs == {"omitted", "object", "array"}

(* The imageFile argument: a File / Blob, or a base64 data-URL string. *)
ImageArgs == {"blob", "base64"}

(* message.length and sessionId.length of the chat calls *)
MessageLengths == {0, 1, 2000, 2001}

SessionIdLengths == {0, 1, 100, 101}

NoArgs == [query |-> <<>>, filter |-> "omitted", image |-> "none", message |-> 0, sessionId |-> 0]

NoRequest == [path |-> "", headers |-> {}, encoding |-> "none", jsonBody |-> {}, formFields |-> {}]

(* fetch(`${BASE_URL}/api/discovery`, { JSON body }) of searchProducts *)
SearchProductsRequest(key, tenant) ==
    [path       |-> "/api/discovery",
     headers    |-> AuthHeaders(key, tenant) \cup JsonContentType,
     encoding   |-> "json",
     jsonBody   |-> {"query", "filter", "includeConfidenceMessage", "top_n"},
     formFields |-> {}]

(* new FormData() with its three append() calls, and the fetch of           *)
(* searchWithImage: the body is the FormData whatever imageFile is.        *)
SearchWithImageRequest(key, tenant, image) ==
    [path       |-> "/api/discovery",
     headers    |-> AuthHeaders(key, tenant),
     encoding   |-> "multipart",
     jsonBody   |-> {},
     formFields |-> {"query", "image", "includeConfidenceMessage"}]

(* fetch of chatWithAssistant: body JSON.stringify({ message }) *)
ChatRequest(key, tenant) ==
    [path       |-> "/api/products-chat",
     headers    |-> AuthHeaders(key, tenant) \cup JsonContentType,
     encoding   |-> "json",
     jsonBody   |-> {"message"},
     formFields |-> {}]

(* fetch of streamChat: body JSON.stringify({ message, sessionId }) *)
StreamRequest(key, tenant) ==
    [path       |-> "/api/products-chat/stream",
     headers    |-> AuthHeaders(key, tenant) \cup JsonContentType,
     encoding   |-> "json",
     jsonBody   |-> {"message", "sessionId"},
     formFields |-> {}]

DpInit ==
    /\ API_KEY = Undefined
    /\ TENANT_ID = Undefined
    /\ dp_pc = "unloaded"
    /\ dp_fn = "none"
    /\ dp_args = NoArgs
    /\ dp_request = NoRequest
    /\ dp_requests = 0
    /\ dp_ret = "pending"
    /\ dp_thrown = "none"

(* The module is loaded: the two constants take the values of the environment. *)
LoadConfig(key, tenant) ==
    /\ dp_pc = "unloaded"
    /\ API_KEY' = key
    /\ TENANT_ID' = tenant
    /\ dp_pc' = "idle"
    /\ UNCHANGED <<dp_fn, dp_args, dp_request, dp_requests, dp_ret, dp_thrown>>

(* A helper up to its await fetch(). *)
Dispatches(fn, args, request, next) ==
    /\ dp_pc = "idle"
    /\ dp_fn' = fn
    /\ dp_args' = args
    /\ dp_request' = request
    /\ dp_requests' = dp_requests + 1
    /\ dp_pc' = next
    /\ UNCHANGED <<API_KEY, TENANT_ID, dp_ret, dp_thrown>>

searchProducts(query, filters) ==
    Dispatches("searchProducts", [NoArgs EXCEPT !.query = query, !.filter = filters],
               SearchProductsRequest(API_KEY, TENANT_ID), "fetching")

searchWithImage(query, imageFile) ==
    Dispatches("searchWithImage", [NoArgs EXCEPT !.query = query, !.image = imageFile],
               SearchWithImageRequest(API_KEY, TENANT_ID, imageFile), "fetching")

chatWithAssistant(message) ==
    Dispatches("chatWithAssistant", [NoArgs EXCEPT !.message = message],
               ChatRequest(API_KEY, TENANT_ID), "fetching")

(* streamChat up to its await fetch(); the reading of the body is Connect..ReadFail. *)
streamChat(message, sessionId) ==
    Dispatches("streamChat", [NoArgs EXCEPT !.message = message, !.sessionId = sessionId],
               StreamRequest(API_KEY, TENANT_ID), "streaming")

(* The fetch of searchProducts / searchWithImage / chatWithAssistant settles: *)
(* `if (!response.ok) throw ...; return await response.json()`.             *)
DpRespond(o) ==
    /\ dp_pc = "fetching"
    /\ dp_pc' = "done"
    /\ LET r == CatSettle(o) IN
        IF r = "value"
        THEN /\ dp_ret' = "value"
             /\ UNCHANGED dp_thrown
        ELSE /\ dp_ret' = "throw"
             /\ dp_thrown' = r
    /\ UNCHANGED <<API_KEY, TENANT_ID, dp_fn, dp_args, dp_request, dp_requests>>

-----------------------------------------------------------------------------
(* request() of the frontend api client and the effect of App that calls it *)

API_BASE == "/api"

(* The four calls of App's effect and the endpoint each passes to request(). *)
Calls == {"main", "products", "discovery", "chat"}

Endpoint(c) ==
    CASE c = "main"      -> "/"
      [] c = "products"  -> "/products/"
      [] c = "discovery" -> "/discovery/"
      [] OTHER           -> "/chat/"

(* Response bodies, as token sequences: two JSON objects, a text that is   *)
(* not JSON, and the text of an error response.                            *)
JsonBodyA == <<"{", "\"message\"", ":", "\"a\"", "}">>

JsonBodyB == <<"{", "\"message\"", ":", "\"b\"", "}">>

HtmlBody == <<"<html>">>

ErrorBody == <<"not found">>

NoData == [message |-> ""]

NoResponse == [kind |-> "none", status |-> 0, body |-> <<>>, textOk |-> FALSE]

(* What fetch() can settle with: a rejection, a 200 with one of the bodies, *)
(* a 404 or 500 whose text can or cannot be read.                          *)
AppResponses ==
    {[kind |-> "reject", status |-> 0, body |-> <<>>, textOk |-> FALSE]}
    \cup {[kind |-> "http", status |-> 200, body |-> b, textOk |-> TRUE] :
            b \in {JsonBodyA, JsonBodyB, HtmlBody}}
    \cup {[kind |-> "http", status |-> st, body |-> ErrorBody, textOk |-> t] :
            st \in {404, 500}, t \in BOOLEAN}

Pending == [kind |-> "pending", status |-> 0, message |-> <<>>, data |-> NoData]

StatusDigits(status) ==
    CASE status = 404 -> "404"
      [] status = 500 -> "500"
      [] OTHER        -> "200"

(* `API error: ${res.status}` *)
FallbackMessage(status) == <<"API error: ", StatusDigits(status)>>

(* res.json(): the parsed object, or a SyntaxError *)
ResJson(body) ==
    IF Len(body) = 5 /\ body[1] = "{" /\ body[2] = "\"message\"" /\ body[3] = ":" /\ body[5] = "}"
    THEN [ok |-> TRUE, data |-> [message |-> body[4]]]
    ELSE [ok |-> FALSE, data |-> NoData]

(* JSON.stringify(data) *)
JSONStringify(data) == <<"{", "\"message\"", ":", data.message, "}">>

(* The fetch options of request(endpoint) called without options. *)
RequestOf(c) ==
    [url     |-> <<API_BASE, Endpoint(c)>>,
     headers |-> {<<"Content-Type", "application/json">>}]

NoAppRequest == [url |-> <<>>, headers |-> {}]

(* Mutant of OnResponse: a response that is not ok is handed back as a     *)
(* value carrying its status.                                              *)
OnResponse_ReturnsStatus(resp) ==
    IF resp.kind = "reject"
    THEN [pc |-> "rejected", result |-> [Pending EXCEPT !.kind = "TypeError"]]
    ELSE IF ~ResponseOk(resp.status)
    THEN [pc |-> "resolved",
          result |-> [Pending EXCEPT !.kind = "value", !.status = resp.status]]
    ELSE [pc |-> "json", result |-> Pending]

(* request() from the settling of `await fetch(...)` to its next await:    *)
(* a rejection of fetch leaves request() as it is; `if (!res.ok)` goes on  *)
(* to res.text(), otherwise to res.json().                                 *)
OnResponse(resp) ==
    IF resp.kind = "reject"
    THEN [pc |-> "rejected", result |-> [Pending EXCEPT !.kind = "TypeError"]]
    ELSE IF ~ResponseOk(resp.status)
    THEN [pc |-> "text", result |-> Pending]
    ELSE [pc |-> "json", result |-> Pending]

(* Mutant of SetView: every callback writes the same state. *)
SetView_Shared(view, c, v) == [view EXCEPT !["main"] = v]

(* setMain / setProducts / setDiscovery / setChat *)
SetView(view, c, v) == [view EXCEPT ![c] = v]

ApInit ==
    /\ ap_pc = [c \in Calls |-> "idle"]
    /\ ap_request = [c \in Calls |-> NoAppRequest]
    /\ ap_response = [c \in Calls |-> NoResponse]
    /\ ap_result = [c \in Calls |-> Pending]
    /\ ap_view = [c \in Calls |-> <<>>]

(* The effect runs once after the first render: the four calls are made one *)
(* after the other, each running to its `await fetch(...)`.                *)
Mount ==
    /\ \A c \in Calls : ap_pc[c] = "idle"
    /\ ap_pc' = [c \in Calls |-> "fetching"]
    /\ ap_request' = [c \in Calls |-> RequestOf(c)]
    /\ UNCHANGED <<ap_response, ap_result, ap_view>>

(* The fetch of call c settles. *)
FetchSettles(c, resp) ==
    /\ ap_pc[c] = "fetching"
    /\ ap_response' = [ap_response EXCEPT ![c] = resp]
    /\ ap_pc' = [ap_pc EXCEPT ![c] = OnResponse(resp).pc]
    /\ ap_result' = [ap_result EXCEPT ![c] = OnResponse(resp).result]
    /\ UNCHANGED <<ap_request, ap_view>>

(* `await res.text().catch(() => ...)` settles; `throw new ApiError(...)`. *)
TextSettles(c) ==
    /\ ap_pc[c] = "text"
    /\ LET resp == ap_response[c]
           message == IF resp.textOk THEN resp.body ELSE FallbackMessage(resp.status)
       IN ap_result' = [ap_result EXCEPT ![c] =
              [Pending EXCEPT !.kind = "ApiError", !.status = resp.status, !.message = message]]
    /\ ap_pc' = [ap_pc EXCEPT ![c] = "rejected"]
    /\ UNCHANGED <<ap_request, ap_response, ap_view>>

(* `return res.json()` settles. *)
JsonSettles(c) ==
    /\ ap_pc[c] = "json"
    /\ LET parsed == ResJson(ap_response[c].body) IN
        IF parsed.ok
        THEN /\ ap_result' = [ap_result EXCEPT ![c] =
                    [Pending EXCEPT !.kind = "value", !.data = parsed.data]]
             /\ ap_pc' = [ap_pc EXCEPT ![c] = "resolved"]
        ELSE /\ ap_result' = [ap_result EXCEPT ![c] = [Pending EXCEPT !.kind = "SyntaxError"]]
             /\ ap_pc' = [ap_pc EXCEPT ![c] = "rejected"]
    /\ UNCHANGED <<ap_request, ap_response, ap_view>>

(* `.then((data) => setX(JSON.stringify(data)))` runs for call c. *)
ThenCallback(c) ==
    /\ ap_pc[c] = "resolved"
    /\ ap_view' = SetView(ap_view, c, JSONStringify(ap_result[c].data))
    /\ ap_pc' = [ap_pc EXCEPT ![c] = "shown"]
    /\ UNCHANGED <<ap_request, ap_response, ap_result>>

-----------------------------------------------------------------------------
(* The frontend api client, one call at a time: request(endpoint, options), *)
(* api.analyzeImage, api.generateImage                                     *)

(* The options argument of request(): absent, or an object with or without *)
(* a method and with or without a headers property.                        *)
NoOptions == [given |-> FALSE, method |-> "", hasHeaders |-> FALSE, headers |-> {}]

RequestOptions ==
    {NoOptions,
     [given |-> TRUE, method |-> "", hasHeaders |-> FALSE, headers |-> {}],
     [given |-> TRUE, method |-> "POST", hasHeaders |-> FALSE, headers |-> {}],
     [given |-> TRUE, method |-> "", hasHeaders |-> TRUE, headers |-> {}],
     [given |-> TRUE, method |-> "", hasHeaders |-> TRUE, headers |-> {<<"X-Trace", "1">>}],
     [given |-> TRUE, method |-> "POST", hasHeaders |-> TRUE,
      headers |-> {<<"Content-Type", "text/plain">>, <<"X-Trace", "1">>}]}

RequestEndpoints == {"/products/", "/products/configure"}

(* `options?.headers` *)
OptionalHeaders(options) ==
    IF options.given /\ options.hasHeaders THEN options.headers ELSE {}

(* { ...defaults, ...callers }: a key of callers replaces the same key of defaults *)
SpreadHeaders(defaults, callers) ==
    callers \cup {d \in defaults : \A h \in callers : h[1] # d[1]}

(* The second argument of fetch in request():                              *)
(*   { headers: { "Content-Type": "application/json", ...options?.headers }, *)
(*     ...options }                                                        *)
(* the spread of options comes last, so its own headers and method         *)
(* properties replace the ones written before it.                          *)
FetchInit(options) ==
    LET merged == SpreadHeaders(JsonContentType, OptionalHeaders(options))
    IN [headers |-> IF options.given /\ options.hasHeaders THEN options.headers ELSE merged,
        method  |-> IF options.given /\ options.method # "" THEN options.method ELSE "GET",
        form    |-> {}]

NoSent == [url |-> <<>>, headers |-> {}, method |-> "", form |-> {}]

(* productImages.length of a generateImage call *)
ProductImageCounts == {1, 2}

(* The FormData of generateImage: productImage2 only `if (productImages[1])`. *)
GenerateForm(n) ==
    {"userImage", "productImage1", "prompt"} \cup (IF n >= 2 THEN {"productImage2"} ELSE {})

(* Mutant of ApiErrorOf: the status is lost when the error text cannot be read. *)
ApiErrorOf_StatusLost(resp) ==
    IF resp.textOk
    THEN [Pending EXCEPT !.kind = "ApiError", !.status = resp.status, !.message = resp.body]
    ELSE [Pending EXCEPT !.kind = "ApiError", !.message = FallbackMessage(resp.status)]

(* const message = await res.text().catch(() => `API error: ${res.status}`); *)
(* throw new ApiError(res.status, message);                                *)
ApiErrorOf(resp) ==
    [Pending EXCEPT !.kind = "ApiError", !.status = resp.status,
                    !.message = IF resp.textOk THEN resp.body ELSE FallbackMessage(resp.status)]

(* return res.json(); *)
JsonResultOf(resp) ==
    IF ResJson(resp.body).ok
    THEN [Pending EXCEPT !.kind = "value", !.data = ResJson(resp.body).data]
    ELSE [Pending EXCEPT !.kind = "SyntaxError"]

FcInit ==
    /\ fc_pc = "idle"
    /\ fc_fn = "none"
    /\ fc_options = NoOptions
    /\ fc_sent = NoSent
    /\ fc_response = NoResponse
    /\ fc_result = Pending

(* request(endpoint, options) up to its await fetch(...) *)
CallRequest(endpoint, options) ==
    /\ fc_pc = "idle"
    /\ fc_fn' = "request"
    /\ fc_options' = options
    /\ fc_sent' = [url     |-> <<API_BASE, endpoint>>,
                   headers |-> FetchInit(options).headers,
                   method  |-> FetchInit(options).method,
                   form    |-> {}]
    /\ fc_pc' = "fetching"
    /\ UNCHANGED <<fc_response, fc_result>>

(* api.analyzeImage(file) up to its await fetch(...) *)
CallAnalyzeImage ==
    /\ fc_pc = "idle"
    /\ fc_fn' = "analyzeImage"
    /\ fc_sent' = [url |-> <<API_BASE, "/vision/analyze">>, headers |-> {},
                   method |-> "POST", form |-> {"image"}]
    /\ fc_pc' = "fetching"
    /\ UNCHANGED <<fc_options, fc_response, fc_result>>

(* api.generateImage(userImage, productImages, prompt) up to its await fetch(...) *)
CallGenerateImage(n) ==
    /\ fc_pc = "idle"
    /\ fc_fn' = "generateImage"
    /\ fc_sent' = [url |-> <<API_BASE, "/nano-banana/generate">>, headers |-> {},
                   method |-> "POST", form |-> GenerateForm(n)]
    /\ fc_pc' = "fetching"
    /\ UNCHANGED <<fc_options, fc_response, fc_result>>

(* await fetch(...) settles; `if (!res.ok)` *)
FcFetchSettles(resp) ==
    /\ fc_pc = "fetching"
    /\ fc_response' = resp
    /\ fc_pc' = OnResponse(resp).pc
    /\ fc_result' = OnResponse(resp).result
    /\ UNCHANGED <<fc_fn, fc_options, fc_sent>>

(* await res.text().catch(...) settles; throw new ApiError(...) *)
FcTextSettles ==
    /\ fc_pc = "text"
    /\ fc_result' = ApiErrorOf(fc_response)
    /\ fc_pc' = "rejected"
    /\ UNCHANGED <<fc_fn, fc_options, fc_sent, fc_response>>

(* return res.json() settles *)
FcJsonSettles ==
    /\ fc_pc = "json"
    /\ fc_result' = JsonResultOf(fc_response)
    /\ fc_pc' = IF JsonResultOf(fc_response).kind = "value" THEN "resolved" ELSE "rejected"
    /\ UNCHANGED <<fc_fn, fc_options, fc_sent, fc_response>>

-----------------------------------------------------------------------------
(* The worker: the routes it mounts and the handler of POST /generate      *)

(* Response parts Gemini may return in candidates[0].content.parts *)
MaxParts == 2

(* Paths as sequences of "/" and segment tokens. *)
PathTokens(path) ==
    CASE path = "/"                  -> <<"/">>
      [] path = "/api"               -> <<"/", "api">>
      [] path = "/api/"              -> <<"/", "api", "/">>
      [] path = "/api/products/"     -> <<"/", "api", "/", "products", "/">>
      [] path = "/api/discovery/"    -> <<"/", "api", "/", "discovery", "/">>
      [] path = "/api/chat/"         -> <<"/", "api", "/", "chat", "/">>
      [] path = "/api/nano-banana/"  -> <<"/", "api", "/", "nano-banana", "/">>
      [] path = "/products/"         -> <<"/", "products", "/">>
      [] path = "/discovery/"        -> <<"/", "discovery", "/">>
      [] path = "/chat/"             -> <<"/", "chat", "/">>
      [] path = "/vision/analyze"    -> <<"/", "vision", "/", "analyze">>
      [] path = "/nano-banana/generate" -> <<"/", "nano-banana", "/", "generate">>
      [] path = "/generate"          -> <<"/", "generate">>
      [] OTHER                       -> <<"/", "products", "/", "configure">>

(* The path under which app.route(base, sub) registers a route `sub` of    *)
(* the sub-application: base and sub joined by exactly one "/".            *)
MergePath(base, sub) ==
    IF sub = <<"/">> THEN base
    ELSE IF base[Len(base)] = "/" THEN base \o Tail(sub)
    ELSE base \o sub

(* The routes of the sub-applications: products, discovery, chat each      *)
(* app.get("/"); nano-banana app.post("/generate").                        *)
SubRoutes(sub) ==
    IF sub = "nanoBanana" THEN {<<"POST", PathTokens("/generate"), "generate">>}
    ELSE {<<"GET", PathTokens("/"), sub>>}

(* app.route(base, sub) *)
Route(base, sub) ==
    {<<r[1], MergePath(PathTokens(base), r[2]), r[3]>> : r \in SubRoutes(sub)}

Routers == {"index.ts", "part_001"}

(* The route table each router file builds.  The vision route is commented *)
(* out in part_001 and absent from index.ts.                               *)
Mounted(router) ==
    Route("/api/products/", "products")
    \cup Route("/api/discovery/", "discovery")
    \cup Route("/api/chat/", "chat")
    \cup (IF router = "part_001" THEN Route("/api/nano-banana/", "nanoBanana") ELSE {})
    \cup {<<"GET", PathTokens("/api/"), "root">>}

(* The handler for a request, "notFound" when no route matches. *)
HandlerFor(router, req) ==
    IF \E r \in Mounted(router) : r[1] = req.method /\ r[2] = req.path
    THEN (CHOOSE r \in Mounted(router) : r[1] = req.method /\ r[2] = req.path)[3]
    ELSE "notFound"

(* The requests the frontend api client issues: `${API_BASE}${endpoint}`. *)
ClientRequests ==
    {[method |-> "GET", path |-> PathTokens(API_BASE) \o PathTokens(Endpoint(c))] : c \in Calls}
    \cup {[method |-> "POST", path |-> PathTokens(API_BASE) \o PathTokens("/vision/analyze")],
          [method |-> "POST", path |-> PathTokens(API_BASE) \o PathTokens("/nano-banana/generate")]}

NoClientRequest == [method |-> "", path |-> <<>>]

(* What formData.get(name) returns: null, a string, a File. *)
FieldKinds == {"missing", "string", "file"}

PromptKinds == {"missing", "empty", "string", "file"}

NoForm == [userImage |-> "missing", productImage1 |-> "missing", productImage2 |-> "missing",
           prompt |-> "missing"]

Forms ==
    [userImage : FieldKinds, productImage1 : FieldKinds, productImage2 : FieldKinds,
     prompt : PromptKinds]

(* A response part: text only, inlineData with empty data, inlineData with *)
(* data and a mimeType, inlineData with data and no mimeType.              *)
TextPart == [inline |-> FALSE, data |-> "", mimeType |-> ""]

PartKinds ==
    {TextPart,
     [inline |-> TRUE, data |-> "", mimeType |-> "image/png"],
     [inline |-> TRUE, data |-> "AAAA", mimeType |-> "image/jpeg"],
     [inline |-> TRUE, data |-> "BBBB", mimeType |-> ""]}

(* What generateContent settles with: an exception, or a response whose    *)
(* candidates are undefined, empty, without parts, or carry parts.         *)
NoGemini == [kind |-> "none", parts |-> <<>>]

GeminiOutcomes ==
    {[kind |-> k, parts |-> <<>>] : k \in {"throw", "noCandidates", "emptyCandidates", "noParts"}}
    \cup {[kind |-> "parts", parts |-> ps] : ps \in UNION {[1..n -> PartKinds] : n \in 0..MaxParts}}

(* c.json(body, status) *)
JsonResponse(status, message, image, mimeType) ==
    [status |-> status, error |-> message, generatedImage |-> image, mimeType |-> mimeType]

IsFile(kind) == kind = "file"

(* Mutant of Validate: the prompt is checked before the images. *)
Validate_PromptFirst(form, key) ==
    IF form.prompt # "string"
    THEN JsonResponse(400, "Prompt text is required", "", "")
    ELSE IF ~IsFile(form.userImage)
    THEN JsonResponse(400, "User image is required", "", "")
    ELSE IF ~IsFile(form.productImage1)
    THEN JsonResponse(400, "At least one product image is required", "", "")
    ELSE IF ~Truthy(key)
    THEN JsonResponse(500, "Gemini API key not configured", "", "")
    ELSE JsonResponse(0, "", "", "")

(* The four checks of the handler in their order; status 0 when all pass. *)
Validate(form, key) ==
    IF ~IsFile(form.userImage)
    THEN JsonResponse(400, "User image is required", "", "")
    ELSE IF ~IsFile(form.productImage1)
    THEN JsonResponse(400, "At least one product image is required", "", "")
    ELSE IF form.prompt # "string"
    THEN JsonResponse(400, "Prompt text is required", "", "")
    ELSE IF ~Truthy(key)
    THEN JsonResponse(500, "Gemini API key not configured", "", "")
    ELSE JsonResponse(0, "", "", "")

(* Mutant of FindImage: the loop has no break, the last image part wins. *)
RECURSIVE FindImage_Last(_)
FindImage_Last(parts) ==
    IF parts = <<>> THEN TextPart
    ELSE IF parts[Len(parts)].inline /\ parts[Len(parts)].data # "" THEN parts[Len(parts)]
    ELSE FindImage_Last(SubSeq(parts, 1, Len(parts) - 1))

(* `for (const part of parts) { if (part.inlineData?.data) { ...; break; } }` *)
RECURSIVE FindImage(_)
FindImage(parts) ==
    IF parts = <<>> THEN TextPart
    ELSE IF Head(parts).inline /\ Head(parts).data # "" THEN Head(parts)
    ELSE FindImage(Tail(parts))

(* The handler from the settling of generateContent to its response. *)
Extract(g) ==
    IF g.kind = "throw" THEN JsonResponse(500, "Failed to generate image", "", "")
    ELSE IF g.kind \in {"noCandidates", "emptyCandidates", "noParts"}
    THEN JsonResponse(500, "No image generated in response", "", "")
    ELSE IF FindImage(g.parts).data = ""
    THEN JsonResponse(500, "No image data found in response", "", "")
    ELSE JsonResponse(200, "", FindImage(g.parts).data,
                      IF FindImage(g.parts).mimeType # "" THEN FindImage(g.parts).mimeType
                      ELSE "image/png")

WkInit ==
    /\ wk_pc = "down"
    /\ wk_router = "none"
    /\ wk_key = Undefined
    /\ wk_req = NoClientRequest
    /\ wk_handler = "none"
    /\ wk_form = NoForm
    /\ wk_thrown = "none"
    /\ wk_gemini = NoGemini
    /\ wk_upstream = 0
    /\ wk_responses = <<>>

(* The worker is deployed: one of the two router files, with or without a  *)
(* GEMINI_API_KEY binding.                                                 *)
Deploy(router, key) ==
    /\ wk_pc = "down"
    /\ wk_router' = router
    /\ wk_key' = key
    /\ wk_pc' = "idle"
    /\ UNCHANGED <<wk_req, wk_handler, wk_form, wk_thrown, wk_gemini, wk_upstream, wk_responses>>

(* A request of the client arrives and is routed.  The GET handlers answer *)
(* at once, an unrouted path is answered 404, POST /generate runs to its   *)
(* `await c.req.formData()`.                                               *)
Receive(req) ==
    /\ wk_pc = "idle"
    /\ wk_req' = req
    /\ wk_handler' = HandlerFor(wk_router, req)
    /\ CASE HandlerFor(wk_router, req) = "notFound" ->
                /\ wk_responses' = <<JsonResponse(404, "404 Not Found", "", "")>>
                /\ wk_pc' = "done"
         [] HandlerFor(wk_router, req) = "generate" ->
                /\ wk_pc' = "form"
                /\ UNCHANGED wk_responses
         [] OTHER ->
                /\ wk_responses' = <<JsonResponse(200, "", "", "")>>
                /\ wk_pc' = "done"
    /\ UNCHANGED <<wk_router, wk_key, wk_form, wk_thrown, wk_gemini, wk_upstream>>

(* c.req.formData() rejects: the catch block answers 500. *)
FormFails ==
    /\ wk_pc = "form"
    /\ wk_thrown' = "formData"
    /\ wk_responses' = Append(wk_responses, JsonResponse(500, "Failed to generate image", "", ""))
    /\ wk_pc' = "done"
    /\ UNCHANGED <<wk_router, wk_key, wk_req, wk_handler, wk_form, wk_gemini, wk_upstream>>

(* c.req.formData() resolves: the four checks, then on to the first        *)
(* `await userImage.arrayBuffer()`.                                        *)
FormSettles(form) ==
    /\ wk_pc = "form"
    /\ wk_form' = form
    /\ IF Validate(form, wk_key).status # 0
       THEN /\ wk_responses' = Append(wk_responses, Validate(form, wk_key))
            /\ wk_pc' = "done"
       ELSE /\ wk_pc' = "encode"
            /\ UNCHANGED wk_responses
    /\ UNCHANGED <<wk_router, wk_key, wk_req, wk_handler, wk_thrown, wk_gemini, wk_upstream>>

(* An arrayBuffer() of one of the images rejects: the catch block answers 500. *)
EncodeFails ==
    /\ wk_pc = "encode"
    /\ wk_thrown' = "arrayBuffer"
    /\ wk_responses' = Append(wk_responses, JsonResponse(500, "Failed to generate image", "", ""))
    /\ wk_pc' = "done"
    /\ UNCHANGED <<wk_router, wk_key, wk_req, wk_handler, wk_form, wk_gemini, wk_upstream>>

(* The images are encoded, the parts built, and generateContent is called. *)
EncodeSettles ==
    /\ wk_pc = "encode"
    /\ wk_upstream' = wk_upstream + 1
    /\ wk_pc' = "gemini"
    /\ UNCHANGED <<wk_router, wk_key, wk_req, wk_handler, wk_form, wk_thrown, wk_gemini,
                   wk_responses>>

(* generateContent settles: extraction of the image, or the catch block. *)
GeminiSettles(g) ==
    /\ wk_pc = "gemini"
    /\ wk_gemini' = g
    /\ wk_thrown' = IF g.kind = "throw" THEN "generateContent" ELSE "none"
    /\ wk_responses' = Append(wk_responses, Extract(g))
    /\ wk_pc' = "done"
    /\ UNCHANGED <<wk_router, wk_key, wk_req, wk_handler, wk_form, wk_upstream>>

-----------------------------------------------------------------------------
(* The Visualizer component: handleFileSelect, handleVisualize, the toggle  *)
(* button and the two selects                                              *)

NoFile == "null"

(* Files the user may choose. *)
Files == {"roomA", "roomB"}

(* Options of the two selects (two of each). *)
ProductTypes == {"blinds", "drapes"}

Colors == {"white", "navy"}

(* The empty string of imageUrl / generatedImageUrl, and the two strings    *)
(* built by the handlers: URL.createObjectURL(file) and                    *)
(* `data:${result.mimeType};base64,${result.generatedImage}`.              *)
NoImage == [file |-> NoFile, color |-> "", productType |-> ""]

EmptyUrl == [scheme |-> "", mimeType |-> "", file |-> NoFile, image |-> NoImage]

ObjectUrl(file) == [scheme |-> "blob:", mimeType |-> "", file |-> file, image |-> NoImage]

DataUrl(mimeType, image) ==
    [scheme |-> "data:", mimeType |-> mimeType, file |-> NoFile, image |-> image]

NoVzCall == [active |-> FALSE, file |-> NoFile, color |-> "", productType |-> ""]

(* What the fetch of generateImage may settle with: a rejection, a 200     *)
(* carrying the image generated for the call, a 200 that is not JSON, a    *)
(* 500 with a text, with an empty text, with an unreadable text.           *)
VzResponseKinds == {"reject", "image/png", "image/jpeg", "html", "500", "500empty", "500unreadable"}

NoVzResponse == "none"

EmptyMessage == <<>>

(* The promise of api.generateImage for a response: the parsed result, or  *)
(* the error it rejects with.                                              *)
GenerateImageResult(kind, call) ==
    CASE kind = "reject" ->
            [ok |-> FALSE, name |-> "TypeError", message |-> <<"Failed to fetch">>,
             mimeType |-> "", image |-> NoImage]
      [] kind \in {"image/png", "image/jpeg"} ->
            [ok |-> TRUE, name |-> "", message |-> EmptyMessage, mimeType |-> kind,
             image |-> [file |-> call.file, color |-> call.color,
                        productType |-> call.productType]]
      [] kind = "html" ->
            [ok |-> FALSE, name |-> "SyntaxError", message |-> <<"Unexpected token <">>,
             mimeType |-> "", image |-> NoImage]
      [] kind = "500" ->
            [ok |-> FALSE, name |-> "ApiError", message |-> <<"Failed to generate image">>,
             mimeType |-> "", image |-> NoImage]
      [] kind = "500empty" ->
            [ok |-> FALSE, name |-> "ApiError", message |-> EmptyMessage,
             mimeType |-> "", image |-> NoImage]
      [] OTHER ->
            [ok |-> FALSE, name |-> "ApiError", message |-> FallbackMessage(500),
             mimeType |-> "", image |-> NoImage]

(* Mutant of ErrorMessage: the fixed text whatever was thrown. *)
ErrorMessage_Fixed(result) == <<"Failed to generate visualization">>

(* err instanceof Error ? err.message : "Failed to generate visualization"; *)
(* everything api.generateImage rejects with is an Error.                  *)
ErrorMessage(result) ==
    IF result.name \in {"TypeError", "SyntaxError", "ApiError"}
    THEN result.message
    ELSE <<"Failed to generate visualization">>

VzInit ==
    /\ selectedFile = NoFile
    /\ imageUrl = EmptyUrl
    /\ generatedImageUrl = EmptyUrl
    /\ loading = FALSE
    /\ error = EmptyMessage
    /\ showOriginal = TRUE
    /\ productType = "blinds"
    /\ color = "white"
    /\ vz_call = NoVzCall
    /\ vz_response = NoVzResponse
    /\ vz_last = "none"

(* Mutant of handleFileSelect: setShowOriginal(true) is left out. *)
handleFileSelect_KeepsView(file) ==
    /\ vz_last' = "handleFileSelect"
    /\ IF file # NoFile
       THEN /\ selectedFile' = file
            /\ imageUrl' = ObjectUrl(file)
            /\ generatedImageUrl' = EmptyUrl
            /\ error' = EmptyMessage
            /\ UNCHANGED showOriginal
       ELSE UNCHANGED <<selectedFile, imageUrl, generatedImageUrl, showOriginal, error>>
    /\ UNCHANGED <<loading, productType, color, vz_call, vz_response>>

(* onChange of the file input; file is NoFile when the dialog was cancelled. *)
handleFileSelect(file) ==
    /\ vz_last' = "handleFileSelect"
    /\ IF file # NoFile
       THEN /\ selectedFile' = file
            /\ imageUrl' = ObjectUrl(file)
            /\ generatedImageUrl' = EmptyUrl
            /\ showOriginal' = TRUE
            /\ error' = EmptyMessage
       ELSE UNCHANGED <<selectedFile, imageUrl, generatedImageUrl, showOriginal, error>>
    /\ UNCHANGED <<loading, productType, color, vz_call, vz_response>>

(* Mutant of handleVisualize: setLoading(true) is left out. *)
handleVisualize_NoLoading ==
    /\ ~loading
    /\ vz_last' = "handleVisualize"
    /\ IF selectedFile = NoFile
       THEN UNCHANGED <<loading, error, vz_call>>
       ELSE /\ UNCHANGED loading
            /\ error' = EmptyMessage
            /\ vz_call' = [active |-> TRUE, file |-> selectedFile, color |-> color,
                           productType |-> productType]
    /\ UNCHANGED <<selectedFile, imageUrl, generatedImageUrl, showOriginal, productType, color,
                   vz_response>>

(* handleVisualize up to `await api.generateImage(...)`.  The button that  *)
(* calls it is disabled while loading.                                     *)
handleVisualize ==
    /\ ~loading
    /\ vz_last' = "handleVisualize"
    /\ IF selectedFile = NoFile
       THEN UNCHANGED <<loading, error, vz_call>>
       ELSE /\ loading' = TRUE
            /\ error' = EmptyMessage
            /\ vz_call' = [active |-> TRUE, file |-> selectedFile, color |-> color,
                           productType |-> productType]
    /\ UNCHANGED <<selectedFile, imageUrl, generatedImageUrl, showOriginal, productType, color,
                   vz_response>>

(* The awaited call settles: the rest of the try block, or the catch       *)
(* block, and the finally block.                                           *)
GenerateSettles(kind) ==
    /\ vz_call.active
    /\ vz_last' = "settle"
    /\ vz_response' = kind
    /\ LET result == GenerateImageResult(kind, vz_call) IN
        IF result.ok
        THEN /\ generatedImageUrl' = DataUrl(result.mimeType, result.image)
             /\ showOriginal' = FALSE
             /\ UNCHANGED error
        ELSE /\ error' = ErrorMessage(result)
             /\ UNCHANGED <<generatedImageUrl, showOriginal>>
    /\ loading' = FALSE
    /\ vz_call' = NoVzCall
    /\ UNCHANGED <<selectedFile, imageUrl, productType, color>>

(* onClick of the toggle button, rendered when both urls are non-empty. *)
Toggle ==
    /\ imageUrl # EmptyUrl
    /\ generatedImageUrl # EmptyUrl
    /\ showOriginal' = ~showOriginal
    /\ vz_last' = "toggle"
    /\ UNCHANGED <<selectedFile, imageUrl, generatedImageUrl, loading, error, productType, color,
                   vz_call, vz_response>>

(* onChange of the product type select *)
setProductType(value) ==
    /\ productType' = value
    /\ vz_last' = "setProductType"
    /\ UNCHANGED <<selectedFile, imageUrl, generatedImageUrl, loading, error, showOriginal, color,
                   vz_call, vz_response>>

(* onChange of the color select *)
setColor(value) ==
    /\ color' = value
    /\ vz_last' = "setColor"
    /\ UNCHANGED <<selectedFile, imageUrl, generatedImageUrl, loading, error, showOriginal,
                   productType, vz_call, vz_response>>

-----------------------------------------------------------------------------
(* Specifications *)

Init == RqInit /\ CatInit /\ StInit /\ DpInit /\ ApInit /\ FcInit /\ WkInit /\ VzInit

(* makeRequest alone. *)
NextRetry ==
    \/ (\E o \in Outcomes : Attempt(o)) /\ UNCHANGED exceptRq
    \/ Wake /\ UNCHANGED exceptRq
    \/ Cancel /\ UNCHANGED exceptRq

SpecRetry == Init /\ [][NextRetry]_vars

(* makeRequest when every fetch settles and every sleep timer fires. *)
SpecRetryFair ==
    /\ Init
    /\ [][NextRetry]_vars
    /\ WF_vars((\E o \in Outcomes : Attempt(o)) /\ UNCHANGED exceptRq)
    /\ WF_vars(Wake /\ UNCHANGED exceptRq)

(* getProducts and getProductById alone. *)
NextCatalog ==
    \/ (\E p \in PageArgs, l \in LimitArgs, so \in SortOrderArgs :
          getProducts([page |-> p, limit |-> l, sort_order |-> so, id |-> ""]))
       /\ UNCHANGED exceptCat
    \/ (\E id \in ProductIds : getProductById(id)) /\ UNCHANGED exceptCat
    \/ (\E o \in Outcomes : CatRespond(o)) /\ UNCHANGED exceptCat

SpecCatalog == Init /\ [][NextCatalog]_vars

(* A makeRequest call and a getProductById call side by side. *)
NextRetryGet ==
    \/ (\E o \in Outcomes : Attempt(o)) /\ UNCHANGED exceptRq
    \/ Wake /\ UNCHANGED exceptRq
    \/ Cancel /\ UNCHANGED exceptRq
    \/ (\E id \in ProductIds : getProductById(id)) /\ UNCHANGED exceptCat
    \/ (\E o \in Outcomes : CatRespond(o)) /\ UNCHANGED exceptCat

SpecRetryGet == Init /\ [][NextRetryGet]_vars

(* streamChat alone. *)
NextStream ==
    \/ StreamCall /\ UNCHANGED exceptSt
    \/ (\E ps \in FrameSeqs : Connect(ps)) /\ UNCHANGED exceptSt
    \/ ConnectFail /\ UNCHANGED exceptSt
    \/ (\E n \in 1..Len(wire) : Read(n)) /\ UNCHANGED exceptSt
    \/ ReadDone /\ UNCHANGED exceptSt
    \/ ReadFail /\ UNCHANGED exceptSt

SpecStream == Init /\ [][NextStream]_vars

(* The single-request helpers of discovery and chat. *)
NextDispatch ==
    \/ (\E k \in EnvValues, t \in EnvValues : LoadConfig(k, t)) /\ UNCHANGED exceptDp
    \/ (\E q \in Queries, f \in FilterArgs : searchProducts(q, f)) /\ UNCHANGED exceptDp
    \/ (\E q \in Queries, i \in ImageArgs : searchWithImage(q, i)) /\ UNCHANGED exceptDp
    \/ (\E m \in MessageLengths : chatWithAssistant(m)) /\ UNCHANGED exceptDp
    \/ (\E m \in MessageLengths, sid \in SessionIdLengths : streamChat(m, sid))
       /\ UNCHANGED exceptDp
    \/ (\E o \in Outcomes : DpRespond(o)) /\ UNCHANGED exceptDp

SpecDispatch == Init /\ [][NextDispatch]_vars

(* App's effect and its four calls of request(). *)
NextApp ==
    \/ Mount /\ UNCHANGED exceptAp
    \/ (\E c \in Calls, resp \in AppResponses : FetchSettles(c, resp)) /\ UNCHANGED exceptAp
    \/ (\E c \in Calls : TextSettles(c)) /\ UNCHANGED exceptAp
    \/ (\E c \in Calls : JsonSettles(c)) /\ UNCHANGED exceptAp
    \/ (\E c \in Calls : ThenCallback(c)) /\ UNCHANGED exceptAp

SpecApp == Init /\ [][NextApp]_vars

(* The same calls, with the module constants of the guide's client loaded  *)
(* at any moment.                                                          *)
NextConcurrent ==
    \/ (\E k \in EnvValues : LoadConfig(k, k)) /\ UNCHANGED <<exceptApDp, apVars>>
    \/ Mount /\ UNCHANGED exceptAp
    \/ (\E c \in Calls, resp \in AppResponses : FetchSettles(c, resp)) /\ UNCHANGED exceptAp
    \/ (\E c \in Calls : TextSettles(c)) /\ UNCHANGED exceptAp
    \/ (\E c \in Calls : JsonSettles(c)) /\ UNCHANGED exceptAp
    \/ (\E c \in Calls : ThenCallback(c)) /\ UNCHANGED exceptAp

SpecConcurrent == Init /\ [][NextConcurrent]_vars

(* One call of the frontend api client. *)
NextApi ==
    \/ (\E e \in RequestEndpoints, o \in RequestOptions : CallRequest(e, o))
       /\ UNCHANGED exceptFc
    \/ CallAnalyzeImage /\ UNCHANGED exceptFc
    \/ (\E n \in ProductImageCounts : CallGenerateImage(n)) /\ UNCHANGED exceptFc
    \/ (\E resp \in AppResponses : FcFetchSettles(resp)) /\ UNCHANGED exceptFc
    \/ FcTextSettles /\ UNCHANGED exceptFc
    \/ FcJsonSettles /\ UNCHANGED exceptFc

SpecApi == Init /\ [][NextApi]_vars

(* The worker answering one request of the client. *)
NextWorker ==
    \/ (\E r \in Routers, k \in EnvValues : Deploy(r, k)) /\ UNCHANGED exceptWk
    \/ (\E req \in ClientRequests : Receive(req)) /\ UNCHANGED exceptWk
    \/ FormFails /\ UNCHANGED exceptWk
    \/ (\E f \in Forms : FormSettles(f)) /\ UNCHANGED exceptWk
    \/ EncodeFails /\ UNCHANGED exceptWk
    \/ EncodeSettles /\ UNCHANGED exceptWk
    \/ (\E g \in GeminiOutcomes : GeminiSettles(g)) /\ UNCHANGED exceptWk

SpecWorker == Init /\ [][NextWorker]_vars

(* The Visualizer under any sequence of user events and settlements. *)
NextVisualizer ==
    \/ (\E f \in Files \cup {NoFile} : handleFileSelect(f)) /\ UNCHANGED exceptVz
    \/ handleVisualize /\ UNCHANGED exceptVz
    \/ (\E k \in VzResponseKinds : GenerateSettles(k)) /\ UNCHANGED exceptVz
    \/ Toggle /\ UNCHANGED exceptVz
    \/ (\E v \in ProductTypes : setProductType(v)) /\ UNCHANGED exceptVz
    \/ (\E v \in Colors : setColor(v)) /\ UNCHANGED exceptVz

SpecVisualizer == Init /\ [][NextVisualizer]_vars

(* The Visualizer when every call of generateImage settles. *)
SpecVisualizerFair ==
    /\ Init
    /\ [][NextVisualizer]_vars
    /\ WF_vars((\E k \in VzResponseKinds : GenerateSettles(k)) /\ UNCHANGED exceptVz)


-----------------------------------------------------------------------------
(* Claims about makeRequest (SpecRetry) *)

Retryable(o) == o.kind = "reject" \/ (o.kind = "response" /\ o.status >= 500)

TerminalStatus(o) == o.kind = "response" /\ o.status \in {400, 401, 403, 404}

(* C1: an attempt that fails with a terminal error (401/403, 400, 404) is   *)
(* the only attempt: the call ends there and hands that error to the       *)
(* caller.                                                                 *)
C1_TerminalErrorNotRetried ==
    (fetches >= 1 /\ TerminalStatus(outcomes[1]))
        => /\ fetches = 1
           /\ rq_pc = "done"
           /\ ret = "throw"
           /\ thrown = TryBlock(outcomes[1])

(* C2: when every attempt fails with a retryable error, the call makes      *)
(* exactly maxRetries attempts and then hands an error to the caller,      *)
(* never a success and never undefined.                                    *)
C2_ExhaustionReturnsError ==
    (rq_pc = "done" /\ \A i \in 1..Len(outcomes) : Retryable(outcomes[i]))
        => /\ fetches = maxRetries
           /\ ret = "throw"

(* C3: the delay before attempt k (k >= 2) is base * 2^(k-2) with base the  *)
(* 1000 ms unit; outcomes 503, 503, 200 give success after 3 attempts with *)
(* delays base, 2*base; no delay precedes attempt 1 or follows the last    *)
(* attempt.                                                                *)
C3_BackoffSchedule ==
    /\ \A k \in 2..(Len(delays) + 1) : delays[k - 1] = SleepUnitMs * Pow2(k - 2)
    /\ Len(delays) <= fetches
    /\ rq_pc = "done" => Len(delays) = fetches - 1
    /\ (rq_pc = "done" /\ Len(outcomes) = 3
        /\ outcomes[1].status = 503 /\ outcomes[2].status = 503
        /\ outcomes[3].status = 200 /\ outcomes[3].json)
           => (ret = "value" /\ fetches = 3 /\ delays = <<SleepUnitMs, 2 * SleepUnitMs>>)

(* C7: once the caller's cancellation signal has fired, no further attempt  *)
(* is issued and the call resolves as CancelledError.                      *)
C7_CancelStopsTheCall ==
    [][aborted => /\ fetches' = fetches
                  /\ (rq_pc' = "done" => (ret' = "throw" /\ thrown' = "CancelledError"))]_vars

(* C8: a call that does not succeed hands the caller exactly one classified *)
(* error: it never returns normally without a value, and never lets the    *)
(* raw exception of fetch() or of response.json() through.                 *)
C8_FailureIsClassifiedError ==
    (rq_pc = "done" /\ ret # "value")
        => /\ ret = "throw"
           /\ thrown \in {"Authentication failed", "Request failed"}

-----------------------------------------------------------------------------
(* Claims about classification (SpecRetryGet) *)

GotNotFound ==
    /\ cat_fn = "getProductById"
    /\ cat_pc = "done"
    /\ cat_outcome.kind = "response"
    /\ cat_outcome.status = 404

(* getProductById on a 404 throws the error naming that status after its   *)
(* single request.                                                         *)
NotFoundReportedOnce ==
    GotNotFound => /\ cat_ret = "throw"
                   /\ cat_thrown = "HTTP error"
                   /\ cat_status = 404
                   /\ cat_requests = 1

-----------------------------------------------------------------------------
(* Claims about getProducts (SpecCatalog) *)

(* An argument the documented constraints exclude: limit outside 1..100,   *)
(* page below 1, a sort order other than "asc" / "desc".                   *)
InvalidListParams(params) ==
    \/ params.limit.t = "number" /\ (params.limit.n < 1 \/ params.limit.n > 100)
    \/ params.page.t = "number" /\ params.page.n < 1
    \/ params.sort_order.t = "string" /\ params.sort_order.s \notin {"asc", "desc"}

(* C10: a getProducts call with an invalid argument fails with             *)
(* ValidationError and issues no request; the value is not replaced by a   *)
(* default.                                                                *)
C10_InvalidListRejectedLocally ==
    (cat_fn = "getProducts" /\ InvalidListParams(cat_params))
        => /\ cat_requests = 0
           /\ cat_ret = "throw"
           /\ cat_thrown = "ValidationError"

-----------------------------------------------------------------------------
(* Claims about streamChat (SpecStream) *)

Terminal(e) == e.type \in {"end", "error"}

HasChunk(events) == \E i \in 1..Len(events) : events[i].type = "response-chunk"

(* The server kept to the documented stream: connected, chunks, one        *)
(* terminal frame.                                                         *)
SentWellFormed ==
    /\ Len(sent) >= 2
    /\ sent[1] = "connected"
    /\ TypeOf(sent[Len(sent)]) \in {"end", "error"}
    /\ \A i \in 2..(Len(sent) - 1) : TypeOf(sent[i]) = "response-chunk"

(* C4: however the bytes of complete frames are split into reads, the      *)
(* events delivered are those of the unsplit stream, and no read ends in a *)
(* parse failure.                                                          *)
C4_SplitIndependentDecoding ==
    /\ st_thrown # "SyntaxError"
    /\ st_pc = "done" => out = ProcessChunk(Wire(sent)).events

(* C5: over a well-formed stream the delivered sequence is Connected, the  *)
(* chunks in wire order, one terminal event, and nothing after it.         *)
C5_StreamShape ==
    SentWellFormed =>
        /\ \A i \in 1..(Len(out) - 1) : ~Terminal(out[i])
        /\ st_pc = "done" =>
              /\ Len(out) = Len(sent)
              /\ out[1].type = "connected"
              /\ Terminal(out[Len(out)])
              /\ \A i \in 2..(Len(out) - 1) :
                    out[i].type = "response-chunk" /\ out[i].data = DataOf(sent[i])

(* C6: after the first delivered chunk a failure issues no new request and *)
(* reaches the caller as an ErrorEvent that ends the sequence, not as an   *)
(* exception.                                                              *)
C6_MidStreamFailureIsErrorEvent ==
    HasChunk(out) =>
        /\ st_requests = st_calls
        /\ st_pc = "thrown" => (Terminal(out[Len(out)]) /\ out[Len(out)].type = "error")

(* C14: a frame whose type is none of connected, response-chunk, end,      *)
(* error reaches the caller as an error event "unknown event type: <type>"; *)
(* it is not dropped.                                                      *)
C14_UnknownTypeIsErrorEvent ==
    (st_pc = "done" /\ \E i \in 1..Len(sent) : TypeOf(sent[i]) = "ping")
        => \E j \in 1..Len(out) :
              out[j] = [type |-> "error", data |-> "unknown event type: ping"]

RECURSIVE IsSubseq(_, _)
IsSubseq(a, b) ==
    IF a = <<>> THEN TRUE
    ELSE IF b = <<>> THEN FALSE
    ELSE IF Head(a) = Head(b) THEN IsSubseq(Tail(a), Tail(b))
    ELSE IsSubseq(a, Tail(b))

IsPrefix(a, b) == Len(a) <= Len(b) /\ SubSeq(b, 1, Len(a)) = a

(* The events of the frames ps, each frame dispatched once, in wire order. *)
RECURSIVE StreamEvents(_)
StreamEvents(ps) ==
    IF ps = <<>> THEN <<>> ELSE Dispatch(Head(ps)) \o StreamEvents(Tail(ps))

(* C17: the events of one call of streamChat are delivered forward-only    *)
(* and at most once: what has been delivered stays delivered and is only   *)
(* extended, no frame of the response is delivered twice or out of order,  *)
(* nothing more is delivered once the call has ended, and every new call   *)
(* issues a request of its own and starts from an empty sequence.          *)
C17_ForwardOnlyOwnRequest ==
    [][ /\ IsSubseq(out', StreamEvents(sent'))
        /\ st_calls' = st_calls => IsPrefix(out, out')
        /\ (st_calls' = st_calls /\ st_pc \in {"done", "thrown"}) => out' = out
        /\ st_calls' # st_calls => (st_requests' = st_requests + 1 /\ out' = <<>>)
      ]_vars

(* A second call has run to its end after the first had delivered events. *)
C17_Witness ==
    /\ st_calls = 2
    /\ st_requests = 2
    /\ st_pc = "done"
    /\ Len(out) >= 2
    /\ Terminal(out[Len(out)])

-----------------------------------------------------------------------------
(* Discovery and chat helpers: local validation, credentials, encoding *)

RECURSIVE TrimLeft(_)
TrimLeft(q) == IF q # <<>> /\ Head(q) = " " THEN TrimLeft(Tail(q)) ELSE q

RECURSIVE TrimRight(_)
TrimRight(q) ==
    IF q # <<>> /\ q[Len(q)] = " " THEN TrimRight(SubSeq(q, 1, Len(q) - 1)) ELSE q

(* String.prototype.trim on a sequence of characters *)
Trim(q) == TrimRight(TrimLeft(q))

SearchFns == {"searchProducts", "searchWithImage"}

(* C11: a search whose query is empty after trimming is rejected locally:   *)
(* the caller gets a ValidationError and no request is issued.              *)
C11_EmptyQueryRejectedLocally ==
    (dp_fn \in SearchFns /\ Trim(dp_args.query) = <<>>)
        => (dp_requests = 0 /\ dp_ret = "throw" /\ dp_thrown = "ValidationError")

(* C12: a chat call is dispatched only when the message has 1..2000        *)
(* characters and, for the streaming call, the sessionId has 1..100.        *)
C12_ChatDispatchedOnlyWhenValid ==
    (dp_fn \in {"chatWithAssistant", "streamChat"} /\ dp_requests > 0)
        => /\ dp_args.message \in 1..2000
           /\ dp_fn = "streamChat" => dp_args.sessionId \in 1..100

(* C13: the credentials are checked when the client is set up, so every    *)
(* request carries a non-empty x-api-key and a non-empty x-tenant-id.       *)
C13_CredentialsNeverEmpty ==
    dp_requests > 0
        => /\ Truthy(API_KEY) /\ Truthy(TENANT_ID)
           /\ \A h \in dp_request.headers :
                h[1] \in {"x-api-key", "x-tenant-id"} => h[2] \notin {"", "undefined"}
           /\ \E h \in dp_request.headers : h[1] = "x-api-key"
           /\ \E h \in dp_request.headers : h[1] = "x-tenant-id"

-----------------------------------------------------------------------------
(* Claims about request() and App's concurrent calls (SpecApp, SpecConcurrent) *)

Settled(c) == ap_pc[c] \in {"resolved", "shown", "rejected"}

ExpectedView(resp) ==
    IF resp.kind = "http" /\ ResponseOk(resp.status) /\ resp.body \in {JsonBodyA, JsonBodyB}
    THEN resp.body
    ELSE <<>>

Finished(c) == ap_pc[c] \in {"shown", "rejected"}

(* C16: concurrent calls are independent.  The shared configuration is not *)
(* modified once loaded; a step of one call leaves the request, response,  *)
(* result and view of every other call alone; and what a finished call     *)
(* shows is a function of its own response, so the final views do not      *)
(* depend on the order in which the responses arrive.                      *)
C16_CallsIndependent ==
    [][ /\ dp_pc # "unloaded" => (API_KEY' = API_KEY /\ TENANT_ID' = TENANT_ID)
        /\ \A c \in Calls :
              /\ ap_request[c] # NoAppRequest => ap_request'[c] = ap_request[c]
              /\ ap_response[c] # NoResponse => ap_response'[c] = ap_response[c]
              /\ ap_pc'[c] = ap_pc[c] =>
                    (ap_result'[c] = ap_result[c] /\ ap_view'[c] = ap_view[c])
              /\ ap_view'[c] = IF ap_pc'[c] = "shown" THEN ExpectedView(ap_response'[c]) ELSE <<>>
      ]_vars

(* All four calls have finished: two show different bodies, one was        *)
(* rejected, and the configuration was loaded meanwhile.                   *)
C16_Witness ==
    /\ dp_pc = "idle"
    /\ \A c \in Calls : Finished(c)
    /\ ap_view["main"] = JsonBodyA
    /\ ap_view["products"] = JsonBodyB
    /\ ap_pc["discovery"] = "rejected"
    /\ ap_pc["chat"] = "shown"

-----------------------------------------------------------------------------
(* Termination of makeRequest (SpecRetryFair) *)

(* C21: whatever the fetches settle with (5xx, connection failures, 4xx,   *)
(* success, in any mix), makeRequest issues at most maxRetries fetches and *)
(* comes to an end.                                                        *)
C21_TerminatesWithinMaxAttempts ==
    /\ [](fetches <= maxRetries)
    /\ <>(rq_pc = "done")

(* A call that used all its attempts on a mix of connection failures and   *)
(* server errors has ended.                                                *)
C21_Witness ==
    /\ rq_pc = "done"
    /\ fetches = maxRetries
    /\ \E i \in 1..Len(outcomes) : outcomes[i].kind = "reject"
    /\ \E i \in 1..Len(outcomes) : outcomes[i].kind = "response" /\ outcomes[i].status >= 500

-----------------------------------------------------------------------------
(* Claims about the frontend api client (SpecApi) *)

FcSettled == fc_pc \in {"resolved", "rejected"}

C30_HeadersAreMerged ==
    (fc_fn = "request" /\ fc_pc # "idle") =>
        LET callers == IF fc_options.given /\ fc_options.hasHeaders
                       THEN fc_options.headers ELSE {}
        IN /\ \A h \in callers : h \in fc_sent.headers
           /\ (\A h \in callers : h[1] # "Content-Type")
                 => <<"Content-Type", "application/json">> \in fc_sent.headers
           /\ \A h \in fc_sent.headers :
                 h \in callers \/ h = <<"Content-Type", "application/json">>

-----------------------------------------------------------------------------
(* Claims about the worker (SpecWorker) *)

(* C23: every request the frontend api client issues is routed to a        *)
(* handler of the worker; none reaches an unrouted path, POST              *)
(* /api/vision/analyze included.                                           *)
C23_EveryClientRequestRouted ==
    wk_pc # "down" /\ wk_req # NoClientRequest => wk_handler # "notFound"

ChecksPass(form, key) ==
    /\ form.userImage = "file"
    /\ form.productImage1 = "file"
    /\ form.prompt = "string"
    /\ key.t = "string" /\ key.s # ""

FormWasRead == wk_handler = "generate" /\ wk_pc \in {"encode", "gemini", "done"} /\ wk_thrown # "formData"

(* C25: POST /generate calls Gemini only after all four checks passed, and *)
(* the first failing check, in the order user image, product image,        *)
(* prompt, API key, decides the response; a failed check is never followed *)
(* by an upstream call.                                                    *)
C25_ChecksBeforeUpstream ==
    /\ wk_upstream > 0 => (FormWasRead /\ ChecksPass(wk_form, wk_key))
    /\ (FormWasRead /\ ~ChecksPass(wk_form, wk_key)) =>
          /\ wk_pc = "done"
          /\ wk_upstream = 0
          /\ wk_responses =
               <<IF wk_form.userImage # "file"
                 THEN [status |-> 400, error |-> "User image is required",
                       generatedImage |-> "", mimeType |-> ""]
                 ELSE IF wk_form.productImage1 # "file"
                 THEN [status |-> 400, error |-> "At least one product image is required",
                       generatedImage |-> "", mimeType |-> ""]
                 ELSE IF wk_form.prompt # "string"
                 THEN [status |-> 400, error |-> "Prompt text is required",
                       generatedImage |-> "", mimeType |-> ""]
                 ELSE [status |-> 500, error |-> "Gemini API key not configured",
                       generatedImage |-> "", mimeType |-> ""]>>

(* A request with neither a user image nor a prompt was answered for the   *)
(* user image, and one with everything but the key was answered 500.       *)
C25_Witness ==
    /\ wk_pc = "done"
    /\ wk_handler = "generate"
    /\ wk_form.userImage = "file"
    /\ wk_form.productImage1 = "string"
    /\ wk_form.prompt = "empty"
    /\ wk_key = Undefined
    /\ wk_responses[1].error = "At least one product image is required"

(* The index of the first part with inline data, 0 when there is none. *)
FirstInline(parts) ==
    IF \E i \in 1..Len(parts) : parts[i].inline /\ parts[i].data # ""
    THEN CHOOSE i \in 1..Len(parts) :
            /\ parts[i].inline /\ parts[i].data # ""
            /\ \A j \in 1..(i - 1) : ~(parts[j].inline /\ parts[j].data # "")
    ELSE 0

(* C26: POST /generate answers each request exactly once, with status 200, *)
(* 400 or 500; an exception of formData, arrayBuffer or generateContent    *)
(* gives 500 "Failed to generate image"; a 200 carries the non-empty data  *)
(* of the first part that has inline data.                                 *)
C26_OneResponsePerRequest ==
    wk_handler = "generate" =>
        /\ Len(wk_responses) = IF wk_pc = "done" THEN 1 ELSE 0
        /\ wk_pc = "done" =>
              /\ wk_responses[1].status \in {200, 400, 500}
              /\ wk_thrown # "none" =>
                    (wk_responses[1].status = 500
                     /\ wk_responses[1].error = "Failed to generate image")
              /\ wk_responses[1].status = 200 =>
                    /\ wk_upstream = 1
                    /\ wk_gemini.kind = "parts"
                    /\ FirstInline(wk_gemini.parts) # 0
                    /\ wk_responses[1].generatedImage # ""
                    /\ wk_responses[1].generatedImage =
                          wk_gemini.parts[FirstInline(wk_gemini.parts)].data

(* Gemini answered with two image parts and the first one was returned. *)
C26_Witness ==
    /\ wk_pc = "done"
    /\ wk_handler = "generate"
    /\ Len(wk_gemini.parts) = 2
    /\ wk_gemini.parts[1].data = "BBBB"
    /\ wk_gemini.parts[2].data = "AAAA"
    /\ wk_responses[1].status = 200
    /\ wk_responses[1].generatedImage = "BBBB"
    /\ wk_responses[1].mimeType = "image/png"

-----------------------------------------------------------------------------
(* Claims about the Visualizer (SpecVisualizer, SpecVisualizerFair) *)

(* C24: whenever a generated image is held, it was generated from the file *)
(* that is selected now: the result of a call made for an earlier file is  *)
(* not shown once another file has been chosen.                            *)
C24_GeneratedFromSelectedFile ==
    generatedImageUrl # EmptyUrl => generatedImageUrl.image.file = selectedFile

(* C27: loading is true exactly while a call of generateImage started by   *)
(* handleVisualize is pending; every started call brings loading back to   *)
(* false, resolved or rejected; and handleVisualize without a selected     *)
(* file changes no state of the component.                                 *)
C27_LoadingTracksTheCall ==
    /\ [](loading <=> vz_call.active)
    /\ [][(vz_last' = "handleVisualize" /\ selectedFile = NoFile) =>
            UNCHANGED <<selectedFile, imageUrl, generatedImageUrl, loading, error,
                        showOriginal, productType, color>>]_vars
    /\ (loading ~> ~loading)

(* A run has failed and a later run has succeeded; nothing is pending. *)
C27_Witness ==
    /\ ~loading
    /\ vz_last = "settle"
    /\ vz_response = "reject"
    /\ generatedImageUrl # EmptyUrl
    /\ error # EmptyMessage

(* C28: the generated view is shown only when there is a generated image:  *)
(* showOriginal = false implies that generatedImageUrl is not empty.       *)
C28_GeneratedViewHasImage ==
    ~showOriginal => (generatedImageUrl # EmptyUrl /\ generatedImageUrl.scheme = "data:")

(* The generated view is shown for the second file chosen, after a toggle  *)
(* back from the original.                                                 *)
C28_Witness ==
    /\ ~showOriginal
    /\ vz_last = "toggle"
    /\ selectedFile = "roomB"
    /\ generatedImageUrl.image.file = "roomB"
    /\ error = EmptyMessage

(* The handler step that handles a call that rejected. *)
RejectionHandled ==
    /\ vz_call.active
    /\ vz_last' = "settle"
    /\ vz_response' \notin {"image/png", "image/jpeg"}

(* C29: when generateImage rejects, error becomes the message of what was  *)
(* thrown and selectedFile, imageUrl, generatedImageUrl and showOriginal   *)
(* stay as they were; choosing a file, or starting a new run, clears error. *)
C29_FailureFrame ==
    [][ /\ RejectionHandled =>
              /\ error' = GenerateImageResult(vz_response', vz_call).message
              /\ UNCHANGED <<selectedFile, imageUrl, generatedImageUrl, showOriginal>>
        /\ (vz_last' = "handleFileSelect" /\ selectedFile' # selectedFile) => error' = EmptyMessage
        /\ (vz_last' = "handleVisualize" /\ selectedFile # NoFile) => error' = EmptyMessage
      ]_vars

(* A run failed with the text of a 500 while a generated image was shown,  *)
(* and the image is still shown.                                           *)
C29_Witness ==
    /\ vz_last = "settle"
    /\ vz_response = "500"
    /\ error = <<"Failed to generate image">>
    /\ ~showOriginal
    /\ generatedImageUrl # EmptyUrl

=============================================================================
